---- MODULE Spec2Model ----
(***************************************************************************)
(* Tower of Hanoi: the rules engine (hanoi/rules.py), the recursive        *)
(* solver and its traced variant (hanoi/solvers.py), the trace builder     *)
(* (hanoi/trace.py), the tree layout (hanoi/visual.py), the scripted       *)
(* driver (hanoi.py), solve_iterative.py and the handlers of app.py.       *)
(*                                                                         *)
(* Python lists are objects: a GameState is a tuple of three references    *)
(* to list objects.  The model keeps the list objects in `heap` (a         *)
(* sequence, a reference is an index into it) and a GameState is a tuple   *)
(* of three references, so that sharing between states is visible.         *)
(*                                                                         *)
(* A generator is a stack of suspended frames; one next() call resumes the *)
(* top frame and runs until the next yield or until the stack is empty.    *)
(*                                                                         *)
(* Optional values are sequences of length 0 (None) or 1.                  *)
(*                                                                         *)
(* Specifications: Spec (rules engine under arbitrary moves), SpecSolve    *)
(* (the solver replayed), SpecTrace (the traced solver and the trace       *)
(* queries), SpecArgs (the constructors with any disk count), SpecSolved   *)
(* (is_solved on hand-built states), SpecShortest (legal moves counted     *)
(* from the initial state), SpecRun (the scripted driver hanoi.py),        *)
(* SpecIter (solve_iterative.py imported and consumed), SpecAgree          *)
(* (hanoi.py and the package on the same moves), SpecApp (the handlers of  *)
(* app.py on the session state).                                           *)
(***************************************************************************)
EXTENDS Integers, Sequences, FiniteSets, TLC

VARIABLES
    n,        \* number of disks of the puzzle instance
    heap,     \* the list objects: heap[r] is the disk list of reference r
    state,    \* the caller's current GameState: a tuple of three references
    kept,     \* the GameStates the caller has kept, oldest first
    applied,  \* the moves that produced kept[2], kept[3], ...
    last,     \* the caller's record of its latest apply_move call
    pegs,     \* the solver's arguments <<a, b, c>>
    gen,      \* the generator object returned by hanoi_recursive
    moves,    \* the moves the caller has pulled from the generator
    i,        \* number of pulled moves the caller has replayed
    tgen,     \* the generator object returned by hanoi_recursive_traced
    events,   \* closure cell `events` of hanoi_recursive_traced
    t,        \* closure cell `t` of hanoi_recursive_traced
    tmoves,   \* the moves the caller has pulled from the traced generator
    built,    \* what build_trace_events returned, if it was called
    made,     \* how the caller's initial_state(n) call ended, "" before it
    solved,   \* what is_solved(state, n) returned to the caller, if it asked
    steps,    \* number of moves the caller has applied since initial_state(n)
    run,      \* the call run(n, verbose) of hanoi.py: its position and locals
    script,   \* a pegs dict of hanoi.py kept in step with `state`, if any
    iter,     \* the module solve_iterative.py and the generator made from it
    session,  \* st.session_state of app.py, if the app is running
    layout    \* what tree_layout returned, if it was called

vars == <<n, heap, state, kept, applied, last, pegs, gen, moves, i,
          tgen, events, t, tmoves, built, made, solved, steps, run,
          script, iter, session, layout>>

\* ------------------------------------------------------------------ bounds

MaxN == 4

MaxHist == 3

\* how many non-positive disk counts are tried: n ranges over (1 - MaxBad)..MaxN
MaxBad == 2

\* the interpreter's recursion limit, in generator frames
StackLimit == 8

\* ------------------------------------------------------------------ types

Peg == 0..2

Move(f, to) == [from_ |-> f, to |-> to]

AllMoves == {Move(f, to) : f \in Peg, to \in Peg}

Disk(id, size) == [id |-> id, size |-> size]

\* the value of a GameState: the three disk lists its references denote
Deref(h, s) == <<h[s[1]], h[s[2]], h[s[3]]>>

\* state[p] for a peg p in 0..2
PegRef(s, p) == s[p + 1]

Top(l) == l[Len(l)]

\* ------------------------------------------------------------------ rules.py

\* mutant: the sizes grow from bottom to top
initial_state_ascending(h, k) ==
    LET disks == [j \in 1..k |-> Disk(j - 1, j)]
        r     == Len(h)
    IN  [raised |-> FALSE, heap |-> h \o <<disks, <<>>, <<>> >>,
         ret |-> <<r + 1, r + 2, r + 3>>]

\* initial_state(n): allocates three new lists; all disks on the first.
\* range(n) is empty for n <= 0 and the function has no raise statement.
initial_state(h, k) ==
    LET disks == [j \in 1..k |-> Disk(j - 1, k - (j - 1))]
        r     == Len(h)
    IN  [raised |-> FALSE, heap |-> h \o <<disks, <<>>, <<>> >>,
         ret |-> <<r + 1, r + 2, r + 3>>]

\* mutant: the size rule is dropped
is_legal_move_no_size_rule(h, s, m) ==
    LET from_peg == h[PegRef(s, m.from_)]
    IN  IF from_peg = <<>> THEN FALSE ELSE TRUE

\* mutant: < where the code has <=
is_legal_move_strict(h, s, m) ==
    LET from_peg == h[PegRef(s, m.from_)]
        to_peg   == h[PegRef(s, m.to)]
    IN  IF from_peg = <<>> THEN FALSE
        ELSE IF to_peg # <<>> /\ Top(to_peg).size < Top(from_peg).size THEN FALSE
        ELSE TRUE

is_legal_move(h, s, m) ==
    LET from_peg == h[PegRef(s, m.from_)]
        to_peg   == h[PegRef(s, m.to)]
    IN  IF from_peg = <<>> THEN FALSE
        ELSE IF to_peg # <<>> /\ Top(to_peg).size <= Top(from_peg).size THEN FALSE
        ELSE TRUE

\* list(state): a new outer list holding the same three references
list_of(s) == s

\* mutant: reads the top disk without removing it
list_pop_keep(h, r) == [heap |-> h, ret |-> Top(h[r])]

\* new_state[p].pop(): removes the last element of the list object in place
list_pop(h, r) == [heap |-> [h EXCEPT ![r] = SubSeq(h[r], 1, Len(h[r]) - 1)], ret |-> Top(h[r])]

\* new_state[p].append(d): appends to the list object in place
list_append(h, r, d) == [h EXCEPT ![r] = Append(h[r], d)]

\* mutant: the disk is popped before the move is validated
apply_move_pop_first(h, s, m) ==
    IF h[PegRef(s, m.from_)] = <<>>
    THEN [raised |-> TRUE, heap |-> h, ret |-> <<>>]
    ELSE LET new_state == list_of(s)
             popped    == list_pop(h, PegRef(new_state, m.from_))
             h2        == list_append(popped.heap, PegRef(new_state, m.to), popped.ret)
         IN  IF ~is_legal_move(h, s, m)
             THEN [raised |-> TRUE, heap |-> popped.heap, ret |-> <<>>]
             ELSE [raised |-> FALSE, heap |-> h2, ret |-> <<new_state>>]

\* apply_move(state, move): raised = ValueError, ret = the returned tuple
apply_move(h, s, m) ==
    IF ~is_legal_move(h, s, m)
    THEN [raised |-> TRUE, heap |-> h, ret |-> <<>>]
    ELSE LET new_state == list_of(s)
             popped    == list_pop(h, PegRef(new_state, m.from_))
             h2        == list_append(popped.heap, PegRef(new_state, m.to), popped.ret)
         IN  [raised |-> FALSE, heap |-> h2, ret |-> <<new_state>>]

\* mutant: the full stack is accepted on whichever peg it stands
is_solved_any_peg(h, s, k) ==
    \E p \in 1..3 :
        /\ Len(h[s[p]]) = k
        /\ \A j \in 0..(k - 1) : h[s[p]][j + 1].size = k - j

\* mutant: only the number of disks on peg C is checked
is_solved_len_only(h, s, k) ==
    LET peg_c == h[s[3]]
    IN  IF Len(peg_c) # k THEN FALSE ELSE TRUE

\* mutant: only the bottom disk of peg C is checked
is_solved_bottom_only(h, s, k) ==
    LET peg_c == h[s[3]]
    IN  IF peg_c = <<>> THEN FALSE ELSE peg_c[1].size = k

is_solved(h, s, k) ==
    LET peg_c == h[s[3]]
    IN  IF Len(peg_c) # k THEN FALSE
        ELSE \A j \in 0..(k - 1) : peg_c[j + 1].size = k - j

\* ------------------------------------------------------------------ solvers.py: hanoi_recursive

\* a generator frame: the call's arguments and where it is suspended
\*   "start"      not begun
\*   "sub1"       inside the first  `yield from` (the callee is the frame above)
\*   "yield_own"  suspended at its own `yield Move(from_=a, to=b)`
\*   "sub2"       inside the second `yield from`
Frame(k, a, b, c, pc) == [n |-> k, a |-> a, b |-> b, c |-> c, pc |-> pc]

\* mutant: the base case also takes n = 2
base_case_upto2(f) == f.n <= 2

\* if n == 1
base_case(f) == f.n = 1

\* mutant: the move goes to the auxiliary peg
own_move_to_aux(f) == Move(f.a, f.c)

\* Move(from_=a, to=b)
own_move(f) == Move(f.a, f.b)

\* mutant: the first sub-call does not swap destination and auxiliary
sub_call_1_unrotated(f) == Frame(f.n - 1, f.a, f.b, f.c, "start")

\* hanoi_recursive(n-1, a, c, b)
sub_call_1(f) == Frame(f.n - 1, f.a, f.c, f.b, "start")

\* mutant: the second sub-call takes the source as its destination
sub_call_2_swapped(f) == Frame(f.n - 1, f.c, f.a, f.b, "start")

\* hanoi_recursive(n-1, c, b, a)
sub_call_2(f) == Frame(f.n - 1, f.c, f.b, f.a, "start")

Front(l) == SubSeq(l, 1, Len(l) - 1)

\* hanoi_recursive(n, a, b, c): calling a generator function runs none of
\* its body; it returns the generator object
hanoi_recursive(k, a, b, c) ==
    [status |-> "live", stack |-> <<Frame(k, a, b, c, "start")>>]

\* one next() on the generator: out is the yielded move, or empty when the
\* generator is exhausted (StopIteration) or an exception left it (err).
\* A call that would nest deeper than the interpreter allows raises
\* RecursionError, which unwinds and closes every frame.
RECURSIVE hanoi_resume(_)
hanoi_resume(stack) ==
    IF stack = <<>> THEN [stack |-> <<>>, out |-> <<>>, err |-> ""]
    ELSE
      LET f    == Top(stack)
          rest == Front(stack)
          overflow == [stack |-> <<>>, out |-> <<>>, err |-> "RecursionError"]
      IN  CASE f.pc = "start" ->
                 IF base_case(f)
                 THEN [stack |-> rest \o <<[f EXCEPT !.pc = "yield_base"]>>,
                       out |-> <<own_move(f)>>, err |-> ""]
                 ELSE IF Len(stack) >= StackLimit THEN overflow
                 ELSE hanoi_resume(rest \o <<[f EXCEPT !.pc = "sub1"], sub_call_1(f)>>)
            [] f.pc = "yield_base" -> hanoi_resume(rest)
            [] f.pc = "sub1" ->
                 [stack |-> rest \o <<[f EXCEPT !.pc = "yield_own"]>>,
                  out |-> <<own_move(f)>>, err |-> ""]
            [] f.pc = "yield_own" ->
                 IF Len(stack) >= StackLimit THEN overflow
                 ELSE hanoi_resume(rest \o <<[f EXCEPT !.pc = "sub2"], sub_call_2(f)>>)
            [] f.pc = "sub2" -> hanoi_resume(rest)

\* next(g) on a generator object; the status of a generator an exception
\* left is the exception's name
gen_next(g) ==
    LET r == hanoi_resume(g.stack)
    IN  [gen |-> [status |-> IF r.err # "" THEN r.err
                             ELSE IF r.out = <<>> THEN "done" ELSE "live",
                  stack |-> r.stack],
         out |-> r.out]

\* ------------------------------------------------------------------ solvers.py: hanoi_recursive_traced

\* mutant: the id leaves the disk count out
node_id_without_count(f) ==
    ToString(f.a) \o "->" \o ToString(f.b) \o "|aux" \o ToString(f.c)

\* f"n{n}:{a}->{b}|aux{c}"
node_id(f) ==
    "n" \o ToString(f.n) \o ":" \o ToString(f.a) \o "->" \o ToString(f.b)
        \o "|aux" \o ToString(f.c)

\* the traced generator is a second copy of the recursion (lines 121-140):
\* its base test, its move and its two sub-calls are its own

\* if n == 1
traced_base_case(f) == f.n = 1

\* move = Move(from_=a, to=b)
traced_move(f) == Move(f.a, f.b)

\* mutant: the traced first sub-call does not swap destination and auxiliary
traced_sub_call_1_unrotated(f) == Frame(f.n - 1, f.a, f.b, f.c, "start")

\* traced_recursive(n-1, a, c, b)
traced_sub_call_1(f) == Frame(f.n - 1, f.a, f.c, f.b, "start")

\* mutant: the traced second sub-call takes the source as its destination
traced_sub_call_2_swapped(f) == Frame(f.n - 1, f.c, f.a, f.b, "start")

\* traced_recursive(n-1, c, b, a)
traced_sub_call_2(f) == Frame(f.n - 1, f.c, f.b, f.a, "start")

\* mutant: the event carries the move reversed
move_event_reversed(f, tt) ==
    [type |-> "move", node_id |-> node_id(f), move |-> <<Move(f.b, f.a)>>, t |-> tt]

move_event(f, tt) == [type |-> "move", node_id |-> node_id(f), move |-> <<traced_move(f)>>, t |-> tt]

\* mutant: the enter event is stamped after the counter is advanced
enter_event_late(f, tt) == [type |-> "enter", node_id |-> node_id(f), move |-> <<>>, t |-> tt + 1]

enter_event(f, tt) == [type |-> "enter", node_id |-> node_id(f), move |-> <<>>, t |-> tt]

\* mutant: the exit event names the call with destination and auxiliary swapped
exit_event_swapped(f, tt) ==
    [type |-> "exit", node_id |-> node_id(Frame(f.n, f.a, f.c, f.b, f.pc)),
     move |-> <<>>, t |-> tt]

exit_event(f, tt) == [type |-> "exit", node_id |-> node_id(f), move |-> <<>>, t |-> tt]

\* hanoi_recursive_traced(n, a, b, c): creates the cells events = [] and
\* t = 0 and the generator object, and returns without running the body
hanoi_recursive_traced(k, a, b, c) ==
    [gen    |-> [status |-> "live", stack |-> <<Frame(k, a, b, c, "start")>>],
     events |-> <<>>,
     t      |-> 0]

RECURSIVE traced_resume(_, _, _)

\* mutant: the base case appends its exit event before it yields its move
traced_resume_eager_exit(stack, ev, tt) ==
    IF stack = <<>> THEN [stack |-> <<>>, events |-> ev, t |-> tt, out |-> <<>>]
    ELSE
      LET f    == Top(stack)
          rest == Front(stack)
      IN  CASE f.pc = "start" ->
                 IF traced_base_case(f)
                 THEN [stack  |-> rest \o <<[f EXCEPT !.pc = "yield_base"]>>,
                       events |-> ev \o <<enter_event(f, tt), move_event(f, tt + 1),
                                          exit_event(f, tt + 2)>>,
                       t      |-> tt + 3,
                       out    |-> <<traced_move(f)>>]
                 ELSE traced_resume(rest \o <<[f EXCEPT !.pc = "sub1"], traced_sub_call_1(f)>>,
                                    Append(ev, enter_event(f, tt)), tt + 1)
            [] f.pc = "yield_base" -> traced_resume(rest, ev, tt)
            [] f.pc = "sub1" ->
                 [stack  |-> rest \o <<[f EXCEPT !.pc = "yield_own"]>>,
                  events |-> Append(ev, move_event(f, tt)),
                  t      |-> tt + 1,
                  out    |-> <<traced_move(f)>>]
            [] f.pc = "yield_own" ->
                 traced_resume(rest \o <<[f EXCEPT !.pc = "sub2"], traced_sub_call_2(f)>>, ev, tt)
            [] f.pc = "sub2" ->
                 traced_resume(rest, Append(ev, exit_event(f, tt)), tt + 1)

\* one next() on the traced generator, with the closure cells threaded
traced_resume(stack, ev, tt) ==
    IF stack = <<>> THEN [stack |-> <<>>, events |-> ev, t |-> tt, out |-> <<>>]
    ELSE
      LET f    == Top(stack)
          rest == Front(stack)
      IN  CASE f.pc = "start" ->
                 IF traced_base_case(f)
                 THEN [stack  |-> rest \o <<[f EXCEPT !.pc = "yield_base"]>>,
                       events |-> ev \o <<enter_event(f, tt), move_event(f, tt + 1)>>,
                       t      |-> tt + 2,
                       out    |-> <<traced_move(f)>>]
                 ELSE traced_resume(rest \o <<[f EXCEPT !.pc = "sub1"], traced_sub_call_1(f)>>,
                                    Append(ev, enter_event(f, tt)), tt + 1)
            [] f.pc = "yield_base" ->
                 traced_resume(rest, Append(ev, exit_event(f, tt)), tt + 1)
            [] f.pc = "sub1" ->
                 [stack  |-> rest \o <<[f EXCEPT !.pc = "yield_own"]>>,
                  events |-> Append(ev, move_event(f, tt)),
                  t      |-> tt + 1,
                  out    |-> <<traced_move(f)>>]
            [] f.pc = "yield_own" ->
                 traced_resume(rest \o <<[f EXCEPT !.pc = "sub2"], traced_sub_call_2(f)>>, ev, tt)
            [] f.pc = "sub2" ->
                 traced_resume(rest, Append(ev, exit_event(f, tt)), tt + 1)

\* ------------------------------------------------------------------ trace.py

\* build_trace_events(n, a, b, c): `_, events = hanoi_recursive_traced(...)`
\* and the list is returned; the generator is dropped without a next()
build_trace_events(k, a, b, c) ==
    LET r == hanoi_recursive_traced(k, a, b, c) IN r.events

\* event["node_id"] in active_nodes
list_contains(l, x) == \E j \in 1..Len(l) : l[j] = x

\* mutant: the element at the front is deleted, whatever it is
list_remove_head(l, x) == Tail(l)

\* active_nodes.remove(x): deletes the first element equal to x
list_remove(l, x) ==
    LET first == CHOOSE j \in 1..Len(l) : l[j] = x /\ \A h \in 1..(j - 1) : l[h] # x
    IN  SubSeq(l, 1, first - 1) \o SubSeq(l, first + 1, Len(l))

\* mutant: the loop stops at the event stamped with the query time itself
past_query_inclusive(e, q) == e.t >= q

\* if event["t"] > t: break
past_query(e, q) == e.t > q

\* the body of the for loop after the break test: what one event does to
\* active_nodes
active_step(event, active_nodes) ==
    IF event.type = "enter" THEN Append(active_nodes, event.node_id)
    ELSE IF event.type = "exit"
         THEN IF list_contains(active_nodes, event.node_id)
              THEN list_remove(active_nodes, event.node_id)
              ELSE active_nodes
    ELSE active_nodes

\* the for loop of active_node_at over the remaining events
RECURSIVE active_scan(_, _, _)
active_scan(ev, q, active_nodes) ==
    IF ev = <<>> \/ past_query(Head(ev), q) THEN active_nodes
    ELSE LET updated == active_step(Head(ev), active_nodes)
         IN  \* Python updates the list at every iteration; the test on the
             \* updated list makes the evaluation as eager as the loop is
             IF Len(updated) >= 0 THEN active_scan(Tail(ev), q, updated)
             ELSE updated

\* active_node_at(events, t): the last active node, or None
active_node_at(ev, q) ==
    LET active_nodes == active_scan(ev, q, <<>>)
    IN  IF active_nodes # <<>> THEN <<Top(active_nodes)>> ELSE <<>>

\* ------------------------------------------------------------------ hanoi.py

\* list(range(k, 0, -1))
range_down(k) == [j \in 1..k |-> k + 1 - j]

\* mutant: the smaller disk has to be the one below
can_move_reversed(pg, src, dst) ==
    IF pg[src] = <<>> THEN FALSE
    ELSE IF pg[dst] = <<>> THEN TRUE
    ELSE Top(pg[src]) > Top(pg[dst])

\* can_move(pegs, src, dst); pegs is a dict from peg name to list of sizes
can_move(pg, src, dst) ==
    IF pg[src] = <<>> THEN FALSE
    ELSE IF pg[dst] = <<>> THEN TRUE
    ELSE Top(pg[src]) < Top(pg[dst])

\* move(pegs, src, dst): raises ValueError or changes the dict's lists in
\* place, the pop before the append
move(pg, src, dst) ==
    IF ~can_move(pg, src, dst) THEN [raised |-> TRUE, pegs |-> pg]
    ELSE LET popped  == Top(pg[src])
             shorter == [pg EXCEPT ![src] = Front(@)]
         IN  [raised |-> FALSE, pegs |-> [shorter EXCEPT ![dst] = Append(@, popped)]]

\* one activation of solve_recursive(n, src, aux, dst) and where it stands
SFrame(k, src, aux, dst, pc) == [n |-> k, src |-> src, aux |-> aux, dst |-> dst, pc |-> pc]

\* if n == 1
solve_base_case(f) == f.n = 1

\* (src, dst)
solve_move(f) == <<f.src, f.dst>>

\* solve_recursive(n - 1, src, dst, aux)
solve_sub_call_1(f) == SFrame(f.n - 1, f.src, f.dst, f.aux, "start")

\* mutant: the second sub-call starts from the source again
solve_sub_call_2_from_source(f) == SFrame(f.n - 1, f.src, f.aux, f.dst, "start")

\* solve_recursive(n - 1, aux, src, dst)
solve_sub_call_2(f) == SFrame(f.n - 1, f.aux, f.src, f.dst, "start")

\* solve_recursive(n, src, aux, dst): the generator object, no body run yet
solve_recursive(k, src, aux, dst) ==
    [status |-> "live", stack |-> <<SFrame(k, src, aux, dst, "start")>>]

\* one next() on a solve_recursive generator
RECURSIVE solve_resume(_)
solve_resume(stack) ==
    IF stack = <<>> THEN [stack |-> <<>>, out |-> <<>>, err |-> ""]
    ELSE
      LET f    == Top(stack)
          rest == Front(stack)
          overflow == [stack |-> <<>>, out |-> <<>>, err |-> "RecursionError"]
      IN  CASE f.pc = "start" ->
                 IF solve_base_case(f)
                 THEN [stack |-> rest \o <<[f EXCEPT !.pc = "yield_base"]>>,
                       out |-> <<solve_move(f)>>, err |-> ""]
                 ELSE IF Len(stack) >= StackLimit THEN overflow
                 ELSE solve_resume(rest \o <<[f EXCEPT !.pc = "sub1"], solve_sub_call_1(f)>>)
            [] f.pc = "yield_base" -> solve_resume(rest)
            [] f.pc = "sub1" ->
                 [stack |-> rest \o <<[f EXCEPT !.pc = "yield_own"]>>,
                  out |-> <<solve_move(f)>>, err |-> ""]
            [] f.pc = "yield_own" ->
                 IF Len(stack) >= StackLimit THEN overflow
                 ELSE solve_resume(rest \o <<[f EXCEPT !.pc = "sub2"], solve_sub_call_2(f)>>)
            [] f.pc = "sub2" -> solve_resume(rest)

solve_next(g) ==
    LET r == solve_resume(g.stack)
    IN  [gen |-> [status |-> IF r.err # "" THEN r.err
                             ELSE IF r.out = <<>> THEN "done" ELSE "live",
                  stack |-> r.stack],
         out |-> r.out]

\* run(n, verbose) before it is called
NoRun == [pc |-> "idle", verbose |-> FALSE, pegs |-> [A |-> <<>>, B |-> <<>>, C |-> <<>>],
          gen |-> [status |-> "none", stack |-> <<>>], cur |-> <<>>,
          moves_made |-> 0, printed |-> 0, err |-> "", ret |-> <<>>]

\* print(...) under `if verbose`: the number of lines printed so far
print_if(verbose, printed) == IF verbose THEN printed + 1 ELSE printed

\* ------------------------------------------------------------------ solve_iterative.py

\* the global names the body of solve_iterative.py uses and does not define
IterNames == {"Peg", "can_move", "move"}

\* total = (1 << n) - 1, for n >= 0
iter_total(k) == 2 ^ k - 1

\* order = [src, dst, aux] if n % 2 == 1 else [src, aux, dst]
iter_order(k, src, aux, dst) ==
    IF k % 2 = 1 THEN <<src, dst, aux>> ELSE <<src, aux, dst>>

\* a, b = (order[0], order[1]) if idx == 1 else (order[0], order[2])
\* if idx == 2 else (order[1], order[2]), with idx = step % 3
iter_pair(order, step) ==
    LET idx == step % 3
    IN  IF idx = 1 THEN <<order[1], order[2]>>
        ELSE IF idx = 2 THEN <<order[1], order[3]>>
        ELSE <<order[2], order[3]>>

\* legal_between(p, q) on the generator's pegs dict: the move in the
\* direction can_move allows; move raises ValueError when neither is legal
legal_between(pg, p, q) ==
    IF can_move(pg, p, q)
    THEN LET r == move(pg, p, q) IN [raised |-> r.raised, pegs |-> r.pegs, ret |-> <<p, q>>]
    ELSE LET r == move(pg, q, p) IN [raised |-> r.raised, pegs |-> r.pegs, ret |-> <<q, p>>]

\* the module before it is imported, the names `globals` bound in its
\* namespace
IterSource(globals) ==
    [globals |-> globals, status |-> "source", err |-> "", args |-> <<>>,
     total |-> 0, order |-> <<>>, pegs |-> [A |-> <<>>, B |-> <<>>, C |-> <<>>],
     step |-> 0, first |-> <<>>, moves |-> <<>>]

NoIter == IterSource({})

\* the def statement of line 1 evaluates the annotation Peg of its
\* parameters: NameError when the namespace does not bind it
iter_import(it) ==
    IF "Peg" \in it.globals THEN [it EXCEPT !.status = "defined"]
    ELSE [it EXCEPT !.status = "NameError", !.err = "name 'Peg' is not defined"]

\* solve_iterative(n, src, aux, dst): the generator object, no body run yet
solve_iterative(it, src, aux, dst) ==
    [it EXCEPT !.status = "created", !.args = <<src, aux, dst>>]

\* one next() on the generator. The first runs lines 3-7 and yields the
\* pegs dict; each later one runs one turn of the for loop and yields the
\* move legal_between made, or ends the generator.
iter_next(it, k) ==
    IF it.status = "created"
    THEN LET pg == [A |-> range_down(k), B |-> <<>>, C |-> <<>>]
         IN  [it EXCEPT !.status = "running",
                        !.total = iter_total(k),
                        !.order = iter_order(k, it.args[1], it.args[2], it.args[3]),
                        !.pegs = pg,
                        !.first = <<pg>>]
    ELSE IF it.step + 1 > it.total THEN [it EXCEPT !.status = "done"]
    ELSE LET pair == iter_pair(it.order, it.step + 1)
         IN  IF ~({"can_move", "move"} \subseteq it.globals)
             THEN [it EXCEPT !.status = "NameError", !.step = @ + 1,
                             !.err = "name 'can_move' is not defined"]
             ELSE LET r == legal_between(it.pegs, pair[1], pair[2])
                  IN  IF r.raised
                      THEN [it EXCEPT !.status = "ValueError", !.step = @ + 1,
                                      !.err = "Illegal move"]
                      ELSE [it EXCEPT !.step = @ + 1, !.pegs = r.pegs,
                                      !.moves = Append(@, r.ret)]

\* ------------------------------------------------------------------ visual.py: tree_layout

\* f"n{n}:{a}->{b}|aux{c}"
tree_node_id(k, a, b, c) ==
    "n" \o ToString(k) \o ":" \o ToString(a) \o "->" \o ToString(b)
        \o "|aux" \o ToString(c)

\* label = f"n={n}\n{a}→{b}": the three values the label shows
tree_label(k, a, b) == <<k, a, b>>

\* nodes[key] = value on a dict: a key already present keeps one entry
dict_set(d, key, value) ==
    [x \in (DOMAIN d) \cup {key} |-> IF x = key THEN value ELSE d[x]]

\* layout_recursive(n, a, b, c, x, y, parent_id) on the cells nodes and
\* edges of tree_layout; ret is the returned next x, parent_id is None or
\* the id of the calling node
RECURSIVE layout_recursive(_, _, _, _, _, _, _, _, _)
layout_recursive(k, a, b, c, x, y, parent_id, nodes, edges) ==
    IF k = 0 THEN [nodes |-> nodes, edges |-> edges, ret |-> x]
    ELSE
      LET id      == tree_node_id(k, a, b, c)
          stored  == dict_set(nodes, id, <<x, y, tree_label(k, a, b)>>)
          linked  == IF parent_id # <<>> THEN Append(edges, <<parent_id[1], id>>) ELSE edges
      IN  IF k = 1 THEN [nodes |-> stored, edges |-> linked, ret |-> x + 1]
          ELSE LET left  == layout_recursive(k - 1, a, c, b, x, y + 1, <<id>>, stored, linked)
                   right == layout_recursive(k - 1, c, b, a, left.ret, y + 1, <<id>>,
                                             left.nodes, left.edges)
               IN  right

\* tree_layout(n, a, b, c): the dict of nodes and the list of edges
tree_layout(k, a, b, c) ==
    LET r == layout_recursive(k, a, b, c, 0, 0, <<>>, <<>>, <<>>)
    IN  [nodes |-> r.nodes, edges |-> r.edges]

\* ------------------------------------------------------------------ app.py

\* st.session_state.n = 3
DefaultN == 3

\* st.slider("Number of Disks", 3, 10, ...)
SliderMinN == 3
SliderMaxN == 10

\* st.session_state.speed_ms = 500
DefaultSpeed == 500

\* st.slider("Speed (ms)", 100, 2000, ..., 100)
SpeedMin == 100
SpeedMax == 2000
SpeedStep == 100

\* list(hanoi_recursive(n)): the generator pulled until it is exhausted
RECURSIVE list_moves(_)
list_moves(g) ==
    LET r == gen_next(g)
    IN  IF r.out = <<>> THEN <<>> ELSE r.out \o list_moves(r.gen)

\* the while loop of step_game: the cursor moves on to the next move event
\* or to the end of the list; events[t] counts from 0
RECURSIVE skip_to_move(_, _)
skip_to_move(ev, tt) ==
    IF tt < Len(ev) /\ ev[tt + 1].type # "move" THEN skip_to_move(ev, tt + 1) ELSE tt

\* reset_game() on session state ss with session_state.n = k. The lists of
\* the state it replaces are referenced from nowhere else, so the heap
\* holds the three new lists only.
reset_game(ss, k) ==
    LET r == initial_state(<<>>, k)
    IN  [heap    |-> r.heap,
         session |-> [ss EXCEPT !.state = r.ret,
                                !.moves = list_moves(hanoi_recursive(k, 0, 2, 1)),
                                !.i = 0,
                                !.events = build_trace_events(k, 0, 2, 1),
                                !.t = 0,
                                !.is_playing = FALSE]]

\* initialize_session_state() on an empty session state, then n = DefaultN
initialize_session_state ==
    reset_game([state |-> <<>>, moves |-> <<>>, i |-> 0, events |-> <<>>, t |-> 0,
                is_playing |-> FALSE, speed_ms |-> DefaultSpeed], DefaultN)

\* mutant: the move is counted and not applied
step_game_not_applied(h, ss) ==
    IF ss.i < Len(ss.moves) /\ is_legal_move(h, ss.state, ss.moves[ss.i + 1])
    THEN [heap |-> h, session |-> [ss EXCEPT !.i = @ + 1]]
    ELSE [heap |-> h, session |-> ss]

\* step_game()
step_game(h, ss) ==
    IF ss.i < Len(ss.moves) /\ is_legal_move(h, ss.state, ss.moves[ss.i + 1])
    THEN LET r  == apply_move(h, ss.state, ss.moves[ss.i + 1])
             at == skip_to_move(ss.events, ss.t)
         IN  [heap    |-> r.heap,
              session |-> [ss EXCEPT !.state = r.ret[1],
                                     !.i = @ + 1,
                                     !.t = IF at < Len(ss.events) THEN at + 1 ELSE at]]
    ELSE [heap |-> h, session |-> ss]

\* ------------------------------------------------------------------ caller

NoCall == [called |-> FALSE, input |-> <<1, 2, 3>>, before |-> <<<<>>, <<>>, <<>>>>,
           move |-> Move(0, 0), raised |-> FALSE, ret |-> <<>>]

\* the caller calls apply_move(state, m), keeps the returned state on success
\* (the first MaxHist of them) and its current state on ValueError
CallApply(m) ==
    LET r == apply_move(heap, state, m)
    IN  /\ heap' = r.heap
        /\ last' = [called |-> TRUE, input |-> state, before |-> Deref(heap, state),
                    move |-> m, raised |-> r.raised, ret |-> r.ret]
        /\ IF r.raised
           THEN UNCHANGED <<state, kept, applied>>
           ELSE /\ state' = r.ret[1]
                /\ IF Len(applied) < MaxHist
                   THEN /\ kept' = Append(kept, r.ret[1])
                        /\ applied' = Append(applied, m)
                   ELSE UNCHANGED <<kept, applied>>

IdleSolver ==
    /\ steps = 0
    /\ run = NoRun
    /\ script = <<>>
    /\ iter = NoIter
    /\ session = <<>>
    /\ layout = <<>>
    /\ pegs = <<0, 2, 1>>
    /\ gen = [status |-> "none", stack |-> <<>>]
    /\ moves = <<>>
    /\ i = 0
    /\ tgen = [status |-> "none", stack |-> <<>>]
    /\ events = <<>>
    /\ t = 0
    /\ tmoves = <<>>
    /\ built = <<>>

\* ------------------------------------------------------------------ Spec: the rules engine under arbitrary moves

Init ==
    /\ n \in 1..MaxN
    /\ LET r == initial_state(<<>>, n)
       IN  /\ heap = r.heap
           /\ state = r.ret
           /\ kept = <<r.ret>>
    /\ applied = <<>>
    /\ last = NoCall
    /\ made = "returned"
    /\ solved = <<>>
    /\ IdleSolver

ApplyMove ==
    /\ \E m \in AllMoves : CallApply(m)
    /\ UNCHANGED <<script, iter, session, layout, n, made, solved, steps, run, pegs, gen, moves, i, tgen, events, t, tmoves, built>>

Next == ApplyMove

Spec == Init /\ [][Next]_vars

\* ------------------------------------------------------------------ SpecSolve: the solver's moves replayed through apply_move

PegOrders == {o \in Peg \X Peg \X Peg : o[1] # o[2] /\ o[2] # o[3] /\ o[1] # o[3]}

\* the state with all k disks stacked on peg a: initial_state(k) for a = 0,
\* and the hand-built tuple of the tests for another peg
stacked_state(h, k, a) ==
    LET r == initial_state(h, k)
        full == r.ret[1]
        e1   == r.ret[2]
        e2   == r.ret[3]
    IN  [heap |-> r.heap,
         ret  |-> CASE a = 0 -> <<full, e1, e2>>
                    [] a = 1 -> <<e1, full, e2>>
                    [] a = 2 -> <<e1, e2, full>>]

InitSolve ==
    /\ n \in 1..MaxN
    /\ pegs \in PegOrders
    /\ LET r == stacked_state(<<>>, n, pegs[1])
       IN  /\ heap = r.heap
           /\ state = r.ret
           /\ kept = <<r.ret>>
    /\ applied = <<>>
    /\ last = NoCall
    /\ made = "returned"
    /\ solved = <<>>
    /\ steps = 0
    /\ run = NoRun
    /\ script = <<>>
    /\ iter = NoIter
    /\ session = <<>>
    /\ layout = <<>>
    /\ gen = hanoi_recursive(n, pegs[1], pegs[2], pegs[3])
    /\ moves = <<>>
    /\ i = 0
    /\ tgen = [status |-> "none", stack |-> <<>>]
    /\ events = <<>>
    /\ t = 0
    /\ tmoves = <<>>
    /\ built = <<>>

\* the caller pulls the next move: next(gen)
SolverPull ==
    /\ gen.status = "live"
    /\ LET r == gen_next(gen)
       IN  /\ gen' = r.gen
           /\ moves' = moves \o r.out
    /\ UNCHANGED <<script, iter, session, layout, n, made, solved, steps, run, heap, state, kept, applied, last, pegs, i, tgen, events, t, tmoves, built>>

\* the caller applies the next pulled move: state = apply_move(state, move);
\* a ValueError ends the replay
Replay ==
    /\ i < Len(moves)
    /\ ~last.raised
    /\ CallApply(moves[i + 1])
    /\ i' = IF last'.raised THEN i ELSE i + 1
    /\ UNCHANGED <<script, iter, session, layout, n, made, solved, steps, run, pegs, gen, moves, tgen, events, t, tmoves, built>>

NextSolve == SolverPull \/ Replay

SpecSolve == InitSolve /\ [][NextSolve]_vars

\* ------------------------------------------------------------------ SpecTrace: the traced solver and the trace builder

InitTrace ==
    /\ n \in 1..MaxN
    /\ pegs \in PegOrders
    /\ LET r == initial_state(<<>>, n)
       IN  /\ heap = r.heap
           /\ state = r.ret
           /\ kept = <<r.ret>>
    /\ applied = <<>>
    /\ last = NoCall
    /\ made = "returned"
    /\ solved = <<>>
    /\ steps = 0
    /\ run = NoRun
    /\ script = <<>>
    /\ iter = NoIter
    /\ session = <<>>
    /\ layout = <<>>
    /\ gen = [status |-> "none", stack |-> <<>>]
    /\ moves = <<>>
    /\ i = 0
    /\ LET r == hanoi_recursive_traced(n, pegs[1], pegs[2], pegs[3])
       IN  /\ tgen = r.gen
           /\ events = r.events
           /\ t = r.t
    /\ tmoves = <<>>
    /\ built = <<>>

\* the caller pulls the next move of the traced generator
TracedPull ==
    /\ tgen.status = "live"
    /\ LET r == traced_resume(tgen.stack, events, t)
       IN  /\ tgen' = [status |-> IF r.out = <<>> THEN "done" ELSE "live", stack |-> r.stack]
           /\ events' = r.events
           /\ t' = r.t
           /\ tmoves' = tmoves \o r.out
    /\ UNCHANGED <<script, iter, session, layout, n, made, solved, steps, run, heap, state, kept, applied, last, pegs, gen, moves, i, built>>

\* the caller calls build_trace_events(n, a, b, c) and keeps the list
BuildTraceEvents ==
    /\ built = <<>>
    /\ built' = <<build_trace_events(n, pegs[1], pegs[2], pegs[3])>>
    /\ UNCHANGED <<script, iter, session, layout, n, made, solved, steps, run, heap, state, kept, applied, last, pegs, gen, moves, i,
                   tgen, events, t, tmoves>>

\* the caller calls tree_layout(n, a, b, c) and keeps what it returns
TreeLayout ==
    /\ layout = <<>>
    /\ layout' = <<tree_layout(n, pegs[1], pegs[2], pegs[3])>>
    /\ UNCHANGED <<script, iter, session, n, made, solved, steps, run, heap, state, kept,
                   applied, last, pegs, gen, moves, i, tgen, events, t, tmoves, built>>

NextTrace == TracedPull \/ BuildTraceEvents \/ TreeLayout

SpecTrace == InitTrace /\ [][NextTrace]_vars

\* ------------------------------------------------------------------ SpecArgs: the constructors called with any disk count

InitArgs ==
    /\ n \in (1 - MaxBad)..MaxN
    /\ pegs \in PegOrders
    /\ heap = <<>>
    /\ state = <<>>
    /\ kept = <<>>
    /\ applied = <<>>
    /\ last = NoCall
    /\ made = ""
    /\ solved = <<>>
    /\ steps = 0
    /\ run = NoRun
    /\ script = <<>>
    /\ iter = NoIter
    /\ session = <<>>
    /\ layout = <<>>
    /\ gen = hanoi_recursive(n, pegs[1], pegs[2], pegs[3])
    /\ moves = <<>>
    /\ i = 0
    /\ tgen = [status |-> "none", stack |-> <<>>]
    /\ events = <<>>
    /\ t = 0
    /\ tmoves = <<>>
    /\ built = <<>>

\* the caller calls initial_state(n)
MakeInitialState ==
    /\ made = ""
    /\ LET r == initial_state(heap, n)
       IN  IF r.raised
           THEN /\ made' = "ValueError"
                /\ UNCHANGED <<heap, state, kept>>
           ELSE /\ made' = "returned"
                /\ heap' = r.heap
                /\ state' = r.ret
                /\ kept' = <<r.ret>>
    /\ UNCHANGED <<script, iter, session, layout, n, solved, steps, run, applied, last, pegs, gen, moves, i, tgen, events, t, tmoves, built>>

\* the caller pulls the next move of hanoi_recursive(n, a, b, c)
ArgsPull ==
    /\ gen.status = "live"
    /\ LET r == gen_next(gen)
       IN  /\ gen' = r.gen
           /\ moves' = moves \o r.out
    /\ UNCHANGED <<script, iter, session, layout, n, made, solved, steps, run, heap, state, kept, applied, last, pegs, i, tgen, events, t, tmoves, built>>

NextArgs == MakeInitialState \/ ArgsPull

SpecArgs == InitArgs /\ [][NextArgs]_vars

\* ------------------------------------------------------------------ SpecSolved: is_solved asked about hand-built states

\* every list of at most MaxN disks with sizes in 1..MaxN, in any order and
\* with repetitions, the disk at index j having id j
AnyDiskLists ==
    UNION {{[j \in 1..l |-> Disk(j - 1, sz[j])] : sz \in [1..l -> 1..MaxN]} : l \in 0..MaxN}

InitSolved ==
    /\ n \in 1..MaxN
    /\ \E pa \in {<<>>, <<Disk(0, MaxN)>>} :
       \E pc \in AnyDiskLists :
          heap = <<pa, <<>>, pc>>
    /\ state = <<1, 2, 3>>
    /\ kept = <<state>>
    /\ applied = <<>>
    /\ last = NoCall
    /\ made = ""
    /\ solved = <<>>
    /\ IdleSolver

\* solved = is_solved(state, n)
AskSolved ==
    /\ solved = <<>>
    /\ solved' = <<is_solved(heap, state, n)>>
    /\ UNCHANGED <<script, iter, session, layout, n, made, steps, run, heap, state, kept, applied, last, pegs, gen, moves, i,
                   tgen, events, t, tmoves, built>>

NextSolved == AskSolved

SpecSolved == InitSolved /\ [][NextSolved]_vars

\* ------------------------------------------------------------------ SpecShortest: legal moves counted from the initial state

\* the caller applies a move with apply_move and counts it; a call that
\* raises leaves everything as it was. The caller gives up after 2^n - 1
\* moves.
CountedMove ==
    /\ steps < 2 ^ n - 1
    /\ \E m \in AllMoves :
          LET r == apply_move(heap, state, m)
          IN  /\ ~r.raised
              /\ heap' = r.heap
              /\ state' = r.ret[1]
              /\ steps' = steps + 1
    /\ UNCHANGED <<script, iter, session, layout, n, made, solved, run, kept, applied, last, pegs, gen, moves, i,
                   tgen, events, t, tmoves, built>>

NextShortest == CountedMove

SpecShortest == Init /\ [][NextShortest]_vars

\* ------------------------------------------------------------------ SpecRun: the scripted driver of hanoi.py

InitRun ==
    /\ n \in (1 - MaxBad)..MaxN
    /\ heap = <<>>
    /\ state = <<>>
    /\ kept = <<>>
    /\ applied = <<>>
    /\ last = NoCall
    /\ made = ""
    /\ solved = <<>>
    /\ IdleSolver

\* run(n, verbose) up to the for statement: the argument check, the pegs
\* dict, the first print and the generator object
RunCall ==
    /\ run.pc = "idle"
    /\ \E verbose \in BOOLEAN :
          run' = IF n <= 0
                 THEN [run EXCEPT !.pc = "raised", !.verbose = verbose,
                                  !.err = "ValueError: n must be positive"]
                 ELSE [run EXCEPT !.pc = "for", !.verbose = verbose,
                                  !.pegs = [A |-> range_down(n), B |-> <<>>, C |-> <<>>],
                                  !.printed = print_if(verbose, 0),
                                  !.moves_made = 0,
                                  !.gen = solve_recursive(n, "A", "B", "C")]
    /\ UNCHANGED <<script, iter, session, layout, n, made, solved, steps, heap, state, kept, applied, last, pegs, gen, moves,
                   i, tgen, events, t, tmoves, built>>

\* the for statement asks the generator for the next (s, d); when there is
\* none the loop ends and run prints, asserts and returns the dict
RunFor ==
    /\ run.pc = "for"
    /\ LET r == solve_next(run.gen)
       IN  run' = IF r.gen.status \notin {"live", "done"}
                  THEN [run EXCEPT !.pc = "raised", !.gen = r.gen, !.err = r.gen.status]
                  ELSE IF r.out # <<>>
                  THEN [run EXCEPT !.pc = "body", !.gen = r.gen, !.cur = r.out]
                  ELSE IF run.pegs["C"] = range_down(n)
                  THEN [run EXCEPT !.pc = "returned", !.gen = r.gen,
                                   !.printed = print_if(run.verbose, @),
                                   !.ret = <<run.pegs>>]
                  ELSE [run EXCEPT !.pc = "raised", !.gen = r.gen,
                                   !.printed = print_if(run.verbose, @),
                                   !.err = "AssertionError"]
    /\ UNCHANGED <<script, iter, session, layout, n, made, solved, steps, heap, state, kept, applied, last, pegs, gen, moves,
                   i, tgen, events, t, tmoves, built>>

\* the loop body: move(pegs, s, d), the count and the print
RunBody ==
    /\ run.pc = "body"
    /\ LET s == run.cur[1][1]
           d == run.cur[1][2]
           r == move(run.pegs, s, d)
       IN  run' = IF r.raised
                  THEN [run EXCEPT !.pc = "raised", !.err = "ValueError: Illegal move"]
                  ELSE [run EXCEPT !.pc = "for", !.pegs = r.pegs, !.cur = <<>>,
                                   !.moves_made = @ + 1,
                                   !.printed = print_if(run.verbose, @)]
    /\ UNCHANGED <<script, iter, session, layout, n, made, solved, steps, heap, state, kept, applied, last, pegs, gen, moves,
                   i, tgen, events, t, tmoves, built>>

NextRun == RunCall \/ RunFor \/ RunBody

SpecRun == InitRun /\ [][NextRun]_vars

\* ------------------------------------------------------------------ SpecIter: solve_iterative.py imported and consumed

\* the peg names in every order
LetterOrders ==
    {o \in {"A", "B", "C"} \X {"A", "B", "C"} \X {"A", "B", "C"} :
        o[1] # o[2] /\ o[2] # o[3] /\ o[1] # o[3]}

\* the namespace the module body runs in: the file as it is binds none of
\* the names; a caller can run it with the type alias alone, or with all
\* three names of hanoi.py
Namespaces == {{}, {"Peg"}, IterNames}

InitIter ==
    /\ n \in 0..MaxN
    /\ heap = <<>>
    /\ state = <<>>
    /\ kept = <<>>
    /\ applied = <<>>
    /\ last = NoCall
    /\ made = ""
    /\ solved = <<>>
    /\ pegs = <<0, 2, 1>>
    /\ gen = [status |-> "none", stack |-> <<>>]
    /\ moves = <<>>
    /\ i = 0
    /\ tgen = [status |-> "none", stack |-> <<>>]
    /\ events = <<>>
    /\ t = 0
    /\ tmoves = <<>>
    /\ built = <<>>
    /\ steps = 0
    /\ run = NoRun
    /\ script = <<>>
    /\ iter \in {IterSource(g) : g \in Namespaces}
    /\ session = <<>>
    /\ layout = <<>>

\* import solve_iterative
IterImport ==
    /\ iter.status = "source"
    /\ iter' = iter_import(iter)
    /\ UNCHANGED <<script, session, layout, n, made, solved, steps, run, heap, state, kept,
                   applied, last, pegs, gen, moves, i, tgen, events, t, tmoves, built>>

\* g = solve_iterative(n, src, aux, dst)
IterCall ==
    /\ iter.status = "defined"
    /\ \E o \in LetterOrders : iter' = solve_iterative(iter, o[1], o[2], o[3])
    /\ UNCHANGED <<script, session, layout, n, made, solved, steps, run, heap, state, kept,
                   applied, last, pegs, gen, moves, i, tgen, events, t, tmoves, built>>

\* next(g)
IterNext ==
    /\ iter.status \in {"created", "running"}
    /\ iter' = iter_next(iter, n)
    /\ UNCHANGED <<script, session, layout, n, made, solved, steps, run, heap, state, kept,
                   applied, last, pegs, gen, moves, i, tgen, events, t, tmoves, built>>

NextIter == IterImport \/ IterCall \/ IterNext

SpecIter == InitIter /\ [][NextIter]_vars

\* ------------------------------------------------------------------ SpecAgree: hanoi.py and the package side by side

\* peg k of the package is peg "A", "B", "C" of hanoi.py
Letter(p) == <<"A", "B", "C">>[p + 1]

InitAgree ==
    /\ n \in 1..MaxN
    /\ pegs \in PegOrders
    /\ LET r == initial_state(<<>>, n)
       IN  /\ heap = r.heap
           /\ state = r.ret
           /\ kept = <<r.ret>>
    /\ applied = <<>>
    /\ last = NoCall
    /\ made = "returned"
    /\ solved = <<>>
    /\ steps = 0
    /\ run = NoRun
    /\ gen = hanoi_recursive(n, pegs[1], pegs[2], pegs[3])
    /\ moves = <<>>
    /\ i = 0
    /\ tgen = [status |-> "none", stack |-> <<>>]
    /\ events = <<>>
    /\ t = 0
    /\ tmoves = <<>>
    /\ built = <<>>
    /\ script = <<[pegs  |-> [A |-> range_down(n), B |-> <<>>, C |-> <<>>],
                   gen   |-> solve_recursive(n, Letter(pegs[1]), Letter(pegs[3]),
                                             Letter(pegs[2])),
                   moves |-> <<>>,
                   called |-> FALSE, pkg_raised |-> FALSE, scr_raised |-> FALSE]>>
    /\ iter = NoIter
    /\ session = <<>>
    /\ layout = <<>>

\* the caller pulls the next move of both generators
AgreePull ==
    /\ gen.status = "live" \/ script[1].gen.status = "live"
    /\ LET r == IF gen.status = "live" THEN gen_next(gen) ELSE [gen |-> gen, out |-> <<>>]
           q == IF script[1].gen.status = "live" THEN solve_next(script[1].gen)
                ELSE [gen |-> script[1].gen, out |-> <<>>]
       IN  /\ gen' = r.gen
           /\ moves' = moves \o r.out
           /\ script' = <<[script[1] EXCEPT !.gen = q.gen, !.moves = @ \o q.out]>>
    /\ UNCHANGED <<iter, session, layout, n, made, solved, steps, run, heap, state, kept,
                   applied, last, pegs, i, tgen, events, t, tmoves, built>>

\* the caller makes one move on both boards: apply_move(state, m) of the
\* package, keeping the returned state unless it raised, and
\* move(pegs, src, dst) of hanoi.py
AgreeMove ==
    /\ \E m \in AllMoves :
          LET r == apply_move(heap, state, m)
              q == move(script[1].pegs, Letter(m.from_), Letter(m.to))
          IN  /\ heap' = r.heap
              /\ state' = IF r.raised THEN state ELSE r.ret[1]
              /\ script' = <<[script[1] EXCEPT !.pegs = q.pegs, !.called = TRUE,
                                              !.pkg_raised = r.raised,
                                              !.scr_raised = q.raised]>>
    /\ UNCHANGED <<iter, session, layout, n, made, solved, steps, run, kept, applied, last,
                   pegs, gen, moves, i, tgen, events, t, tmoves, built>>

NextAgree == AgreePull \/ AgreeMove

SpecAgree == InitAgree /\ [][NextAgree]_vars

\* ------------------------------------------------------------------ SpecApp: the handlers of app.py

\* the first run of the script: initialize_session_state()
InitApp ==
    /\ n = DefaultN
    /\ heap = initialize_session_state.heap
    /\ session = <<initialize_session_state.session>>
    /\ state = <<>>
    /\ kept = <<>>
    /\ applied = <<>>
    /\ last = NoCall
    /\ made = ""
    /\ solved = <<>>
    /\ pegs = <<0, 2, 1>>
    /\ gen = [status |-> "none", stack |-> <<>>]
    /\ moves = <<>>
    /\ i = 0
    /\ tgen = [status |-> "none", stack |-> <<>>]
    /\ events = <<>>
    /\ t = 0
    /\ tmoves = <<>>
    /\ built = <<>>
    /\ steps = 0
    /\ run = NoRun
    /\ script = <<>>
    /\ iter = NoIter
    /\ layout = <<>>

\* the disk slider is moved: session_state.n = new_n, reset_game()
SliderDisks ==
    /\ \E new_n \in SliderMinN..SliderMaxN :
          /\ new_n <= MaxN
          /\ new_n # n
          /\ n' = new_n
          /\ LET r == reset_game(session[1], new_n)
             IN  heap' = r.heap /\ session' = <<r.session>>
    /\ UNCHANGED <<script, iter, layout, made, solved, steps, run, state, kept, applied, last,
                   pegs, gen, moves, i, tgen, events, t, tmoves, built>>

\* the Reset button
ButtonReset ==
    /\ LET r == reset_game(session[1], n)
       IN  heap' = r.heap /\ session' = <<r.session>>
    /\ UNCHANGED <<script, iter, layout, n, made, solved, steps, run, state, kept, applied,
                   last, pegs, gen, moves, i, tgen, events, t, tmoves, built>>

\* the Step button
ButtonStep ==
    /\ LET r == step_game(heap, session[1])
       IN  heap' = r.heap /\ session' = <<r.session>>
    /\ UNCHANGED <<script, iter, layout, n, made, solved, steps, run, state, kept, applied,
                   last, pegs, gen, moves, i, tgen, events, t, tmoves, built>>

\* the Play / Pause button
ButtonPlay ==
    /\ session' = <<[session[1] EXCEPT !.is_playing = ~@]>>
    /\ UNCHANGED <<script, iter, layout, n, made, solved, steps, run, heap, state, kept,
                   applied, last, pegs, gen, moves, i, tgen, events, t, tmoves, built>>

\* the speed slider is moved
SliderSpeed ==
    /\ \E k \in 0..((SpeedMax - SpeedMin) \div SpeedStep) :
          session' = <<[session[1] EXCEPT !.speed_ms = SpeedMin + k * SpeedStep]>>
    /\ UNCHANGED <<script, iter, layout, n, made, solved, steps, run, heap, state, kept,
                   applied, last, pegs, gen, moves, i, tgen, events, t, tmoves, built>>

\* auto_play() at the end of a run of the script
AutoPlay ==
    /\ session[1].is_playing
    /\ session[1].i < Len(session[1].moves)
    /\ LET r == step_game(heap, session[1])
       IN  heap' = r.heap /\ session' = <<r.session>>
    /\ UNCHANGED <<script, iter, layout, n, made, solved, steps, run, state, kept, applied,
                   last, pegs, gen, moves, i, tgen, events, t, tmoves, built>>

NextApp ==
    SliderDisks \/ ButtonReset \/ ButtonStep \/ ButtonPlay \/ SliderSpeed \/ AutoPlay

SpecApp == InitApp /\ [][NextApp]_vars

\* ------------------------------------------------------------------ claims on the rules engine (Spec)

Decreasing(l) == \A j \in 1..(Len(l) - 1) : l[j].size > l[j + 1].size

OriginalDisks(k) == {Disk(j, k - j) : j \in 0..(k - 1)}

Range(l) == {l[j] : j \in 1..Len(l)}

\* the rule of spec 4.1 on the value v of a state
LegalBySpec(v, m) ==
    /\ v[m.from_ + 1] # <<>>
    /\ \/ v[m.to + 1] = <<>>
       \/ Top(v[m.to + 1]).size > Top(v[m.from_ + 1]).size

\* the value reached by replaying the moves ms on a fresh initial_state(k)
RECURSIVE ReplayFrom(_, _, _)
ReplayFrom(h, s, ms) ==
    IF ms = <<>> THEN Deref(h, s)
    ELSE LET r == apply_move(h, s, Head(ms))
         IN  IF r.raised THEN Deref(h, s) ELSE ReplayFrom(r.heap, r.ret[1], Tail(ms))

ReplayValue(k, ms) ==
    LET r == initial_state(<<>>, k) IN ReplayFrom(r.heap, r.ret, ms)

\* C4: in every state reached by successful apply_move calls each peg is
\* strictly decreasing in size from bottom to top.
C4_PegsStrictlyDecreasing ==
    \A p \in Peg : Decreasing(heap[PegRef(state, p)])

\* a successful move has put a disk on top of another one
C4_Witness ==
    /\ last.called /\ ~last.raised
    /\ Len(heap[PegRef(state, last.move.to)]) >= 2

\* C5: after any apply_move calls, successful or failing, the three pegs
\* together hold exactly the original n disks, each once.
C5_DisksConserved ==
    LET all == heap[state[1]] \o heap[state[2]] \o heap[state[3]]
    IN  /\ Len(all) = n
        /\ Range(all) = OriginalDisks(n)

\* a failing call after successful ones
C5_Witness ==
    /\ last.called /\ last.raised
    /\ Len(applied) >= 2

\* C6: apply_move leaves its input as it was, returns a different state,
\* and every kept state still equals the replay of the moves that led to it.
C6_InputNotMutated ==
    (last.called /\ ~last.raised) =>
        /\ Deref(heap, last.input) = last.before
        /\ Deref(heap, last.ret[1]) # Deref(heap, last.input)
        /\ \A k \in 1..Len(kept) :
              Deref(heap, kept[k]) = ReplayValue(n, SubSeq(applied, 1, k - 1))

\* C7: apply_move raises exactly on the moves the rule rejects, and then
\* returns nothing and leaves the input state and the caller's state as
\* they were.
C7_IllegalMoveRaisesAtomically ==
    last.called =>
        /\ last.raised <=> ~LegalBySpec(last.before, last.move)
        /\ last.raised =>
              /\ last.ret = <<>>
              /\ Deref(heap, last.input) = last.before
              /\ state = last.input

\* a larger disk onto a smaller one was refused
C7_Witness ==
    /\ last.called /\ last.raised
    /\ last.before[last.move.from_ + 1] # <<>>
    /\ last.move.from_ # last.move.to

\* C8: is_legal_move is true iff the from peg is non-empty and the to peg
\* is empty or has a strictly larger top disk; a move of a non-empty peg
\* onto itself is illegal.
C8_LegalIffRule ==
    /\ \A m \in AllMoves :
          is_legal_move(heap, state, m) <=> LegalBySpec(Deref(heap, state), m)
    /\ \A p \in Peg :
          heap[PegRef(state, p)] # <<>> => ~is_legal_move(heap, state, Move(p, p))

\* a state with a legal move onto a non-empty peg and a refused one
C8_Witness ==
    /\ \E m \in AllMoves :
          /\ heap[PegRef(state, m.to)] # <<>>
          /\ is_legal_move(heap, state, m)
    /\ \E m \in AllMoves :
          /\ heap[PegRef(state, m.from_)] # <<>>
          /\ m.from_ # m.to
          /\ ~is_legal_move(heap, state, m)

\* ------------------------------------------------------------------ claims on the solver (SpecSolve)

Pow2(k) == 2 ^ k

\* C1: each move of hanoi_recursive(n, a, b, c) is legal in the state reached
\* by replaying the moves before it from all disks on peg a, and the replay
\* never raises.
C1_SolverMovesLegal ==
    /\ i < Len(moves) => is_legal_move(heap, state, moves[i + 1])
    /\ ~last.raised

\* a whole solution for non-default pegs has been replayed
C1_Witness ==
    /\ n >= 2
    /\ pegs[1] # 0
    /\ gen.status = "done"
    /\ i = Len(moves)
    /\ i >= 3

\* C2: with the default pegs 0, 2, 1, replaying every move of the solver
\* from initial_state(n) ends in a state that is_solved accepts.
C2_ReplaySolves ==
    (pegs = <<0, 2, 1>> /\ gen.status = "done" /\ i = Len(moves)) =>
        is_solved(heap, state, n)

\* the default solution for at least two disks has been replayed
C2_Witness ==
    /\ pegs = <<0, 2, 1>>
    /\ n >= 2
    /\ gen.status = "done"
    /\ i = Len(moves)
    /\ i >= 3
    /\ is_solved(heap, state, n)

\* C3: the solver yields exactly 2^n - 1 moves: never more, exactly that
\* many once exhausted, and the next() after the last move exhausts it.
C3_MoveCount ==
    /\ Len(moves) <= Pow2(n) - 1
    /\ gen.status = "done" => Len(moves) = Pow2(n) - 1
    /\ (gen.status = "live" /\ Len(moves) = Pow2(n) - 1) => gen_next(gen).out = <<>>

\* the generator is exhausted for at least two disks
C3_Witness ==
    /\ n >= 2
    /\ gen.status = "done"
    /\ Len(moves) = Pow2(n) - 1

\* ------------------------------------------------------------------ claims on the trace (SpecTrace)

\* list(hanoi_recursive(n, a, b, c))
RECURSIVE Drain(_)
Drain(g) ==
    LET r == gen_next(g)
    IN  IF r.out = <<>> THEN <<>> ELSE r.out \o Drain(r.gen)

RECURSIVE MovesOf(_)
MovesOf(ev) ==
    IF ev = <<>> THEN <<>>
    ELSE (IF Head(ev).type = "move" THEN Head(ev).move ELSE <<>>) \o MovesOf(Tail(ev))

\* C9: the events build_trace_events returns, filtered to the move events,
\* carry exactly the moves of the solver, 2^n - 1 of them.
C9_BuiltMovesEqualSolve ==
    built # <<>> =>
        /\ MovesOf(built[1]) = Drain(hanoi_recursive(n, pegs[1], pegs[2], pegs[3]))
        /\ Len(MovesOf(built[1])) = Pow2(n) - 1

\* the stack scan of the test: push on enter, on exit the top must match
RECURSIVE NestScan(_, _)
NestScan(ev, stack) ==
    IF ev = <<>> THEN [ok |-> TRUE, stack |-> stack]
    ELSE LET e == Head(ev)
         IN  CASE e.type = "enter" -> NestScan(Tail(ev), Append(stack, e.node_id))
               [] e.type = "exit" ->
                    IF stack # <<>> /\ Top(stack) = e.node_id
                    THEN NestScan(Tail(ev), Front(stack))
                    ELSE [ok |-> FALSE, stack |-> stack]
               [] OTHER -> NestScan(Tail(ev), stack)

\* C10: in the trace of the traced solver every exit finds its own node on
\* top of the stack of open enters, and after the last event of the
\* complete trace no enter is left open.
C10_WellNested ==
    LET r == NestScan(events, <<>>)
    IN  /\ r.ok
        /\ tgen.status = "done" => r.stack = <<>>

\* a complete trace with nested calls
C10_Witness ==
    /\ n >= 2
    /\ tgen.status = "done"
    /\ Len(events) >= 9

\* the query times tried against a log: from before its first event to
\* past its last one
QueryTimes(ev) == (0 - 2)..(Len(ev) + 2)

\* C11: on the list build_trace_events returns, active_node_at at the
\* timestamp of an enter event is that event's node, and at 0 it is the root
\* call's node.
C11_ActiveAtEnterOfBuilt ==
    built # <<>> =>
        /\ \A k \in 1..Len(built[1]) :
              built[1][k].type = "enter" =>
                  active_node_at(built[1], built[1][k].t) = <<built[1][k].node_id>>
        /\ active_node_at(built[1], 0) =
              <<node_id(Frame(n, pegs[1], pegs[2], pegs[3], "start"))>>

\* C12: on the complete log of a traced solve, and on the list
\* build_trace_events returns, active_node_at is None before the first
\* timestamp and from the last timestamp on; on an empty log it is None at
\* every time.
C12_NoneOutsideLog ==
    /\ tgen.status = "done" =>
          \A q \in QueryTimes(events) :
              (q < events[1].t \/ q >= events[Len(events)].t) =>
                  active_node_at(events, q) = <<>>
    /\ built # <<>> =>
          \A q \in QueryTimes(built[1]) :
              (built[1] = <<>> \/ q < built[1][1].t \/ q >= built[1][Len(built[1])].t) =>
                  active_node_at(built[1], q) = <<>>
    /\ \A q \in QueryTimes(events) : active_node_at(<<>>, q) = <<>>

\* a complete log of nested calls, and a built list, have been queried
C12_Witness ==
    /\ n >= 2
    /\ tgen.status = "done"
    /\ built # <<>>
    /\ active_node_at(events, events[Len(events)].t - 1) # <<>>
    /\ active_node_at(events, events[Len(events)].t) = <<>>

\* C13: the timestamps of the log come from one counter: the event at list
\* index k (from 0) has t = k, and the counter is the length of the log.
C13_TimestampIsIndex ==
    /\ \A k \in 1..Len(events) : events[k].t = k - 1
    /\ t = Len(events)

\* a log that spans several nested calls
C13_Witness ==
    /\ n >= 2
    /\ Len(tmoves) >= 2
    /\ Len(events) >= 5

\* ------------------------------------------------------------------ claims on the constructors (SpecArgs)

\* C14: initial_state(n) with n <= 0 fails with ValueError and returns no
\* state.
C14_NonPositiveCountRejected ==
    (n <= 0 /\ made # "") => (made = "ValueError" /\ state = <<>>)

\* C15: the solver called with n <= 0 fails with ValueError at once: no move
\* is yielded and the recursion is not left to run into the interpreter's
\* limit.
C15_SolveRejectsNonPositive ==
    (n <= 0 /\ gen.status # "live") => (gen.status = "ValueError" /\ moves = <<>>)

\* C16: for n >= 1 initial_state(n) puts n disks on peg 0, the disk at index
\* i with id i and size n - i, and leaves pegs 1 and 2 empty.
C16_InitialStateShape ==
    (made = "returned" /\ n >= 1) =>
        LET v == Deref(heap, state)
        IN  /\ Len(v[1]) = n
            /\ \A idx \in 0..(n - 1) :
                  v[1][idx + 1].id = idx /\ v[1][idx + 1].size = n - idx
            /\ v[1][1].size = n /\ v[1][n].size = 1
            /\ v[2] = <<>>
            /\ v[3] = <<>>

\* an initial state of several disks has been built
C16_Witness ==
    /\ made = "returned"
    /\ n >= 2
    /\ Len(heap[state[1]]) = n

\* ------------------------------------------------------------------ claims on is_solved (SpecSolved)

Sizes(l) == [j \in 1..Len(l) |-> l[j].size]

\* n, n-1, ..., 1
Countdown(k) == [j \in 1..k |-> k + 1 - j]

\* C17: is_solved(state, n) is true iff peg C holds exactly n disks whose
\* sizes from bottom to top are n, n-1, ..., 1.
C17_SolvedIffCountdownOnC ==
    solved # <<>> => (solved[1] <=> Sizes(heap[state[3]]) = Countdown(n))

\* all n sizes on peg C in a wrong order are refused
C17_Witness ==
    /\ solved = <<FALSE>>
    /\ n >= 2
    /\ Len(heap[state[3]]) = n
    /\ Range(Sizes(heap[state[3]])) = 1..n

\* ------------------------------------------------------------------ further claims on the solver (SpecSolve)

\* C18: while the default solution is replayed from initial_state(n),
\* is_solved is false at the start and after each move but the last, and
\* true after the last, the (2^n - 1)-th.
C18_SolvedOnlyAfterLastMove ==
    pegs = <<0, 2, 1>> => (is_solved(heap, state, n) <=> i = Pow2(n) - 1)

\* one move before the end of a solution of several disks
C18_Witness ==
    /\ pegs = <<0, 2, 1>>
    /\ n >= 2
    /\ i = Pow2(n) - 2
    /\ ~is_solved(heap, state, n)

\* the three-step recursion of spec 4.2, as a list
RECURSIVE ThreeStep(_, _, _, _)
ThreeStep(k, a, b, c) ==
    IF k = 1 THEN <<Move(a, b)>>
    ELSE ThreeStep(k - 1, a, c, b) \o <<Move(a, b)>> \o ThreeStep(k - 1, c, b, a)

IsPrefix(p, l) == Len(p) <= Len(l) /\ SubSeq(l, 1, Len(p)) = p

\* C19: the moves pulled from the solver are, in order, those of the
\* three-step recursion, all of them once it is exhausted; for n = 3 and pegs
\* 0, 2, 1 they are (0,2),(0,1),(2,1),(0,2),(1,0),(1,2),(0,2).
C19_ThreeStepRecursion ==
    /\ IsPrefix(moves, ThreeStep(n, pegs[1], pegs[2], pegs[3]))
    /\ gen.status = "done" => moves = ThreeStep(n, pegs[1], pegs[2], pegs[3])
    /\ (gen.status = "done" /\ n = 3 /\ pegs = <<0, 2, 1>>) =>
          moves = <<Move(0, 2), Move(0, 1), Move(2, 1), Move(0, 2),
                    Move(1, 0), Move(1, 2), Move(0, 2)>>

\* the solver is exhausted for several disks and non-default pegs
C19_Witness ==
    /\ n >= 3
    /\ pegs # <<0, 2, 1>>
    /\ gen.status = "done"
    /\ Len(moves) >= 7

\* C20: for every peg order, replaying all the solver's moves from the n
\* disks stacked on the source leaves the n disks on the destination, sizes
\* n..1 from the bottom, and the source and the auxiliary empty.
C20_AllOnDestination ==
    (gen.status = "done" /\ i = Len(moves)) =>
        LET v == Deref(heap, state)
        IN  /\ v[pegs[2] + 1] = [j \in 1..n |-> Disk(j - 1, n + 1 - j)]
            /\ v[pegs[1] + 1] = <<>>
            /\ v[pegs[3] + 1] = <<>>

\* a whole solution onto a peg other than C has been replayed
C20_Witness ==
    /\ n >= 2
    /\ pegs[2] # 2
    /\ gen.status = "done"
    /\ i = Len(moves)
    /\ Len(heap[PegRef(state, pegs[2])]) = n

\* ------------------------------------------------------------------ C22, C23: the events and the moves of the traced solver

\* the invocations a solve of k disks can make: any count from 1 to k on
\* any ordering of the three pegs
Invocations(k) == {Frame(j, o[1], o[2], o[3], "start") : j \in 1..k, o \in PegOrders}

\* C22: every event of the traced solver's log has a type among enter, move
\* and exit, a node id that is a string and an integer timestamp; it carries
\* a move exactly when its type is move, and the move a move event carries
\* goes from the source to the destination of the invocation the event names.
C22_EventShape ==
    \A j \in 1..Len(events) :
        LET e == events[j]
        IN  /\ e.type \in {"enter", "move", "exit"}
            /\ e.node_id \in STRING
            /\ e.t \in Int
            /\ Len(e.move) <= 1
            /\ (e.move # <<>>) <=> (e.type = "move")
            /\ e.type = "move" =>
                 \E f \in Invocations(n) :
                     /\ e.node_id = node_id(f)
                     /\ e.move[1] = Move(f.a, f.b)

C22_Witness ==
    /\ tgen.status = "done"
    /\ n >= 2
    /\ \E j \in 1..Len(events) : events[j].type = "move" /\ events[j].move # <<Move(pegs[1], pegs[2])>>

\* C23: the moves the fully consumed traced generator has yielded are the
\* moves of the plain solver on the same arguments, in the same order; while
\* it is being consumed the moves yielded so far are a prefix of them.
C23_TracedMovesEqualSolve ==
    LET plain == Drain(hanoi_recursive(n, pegs[1], pegs[2], pegs[3]))
    IN  /\ IsPrefix(tmoves, plain)
        /\ tgen.status = "done" => tmoves = plain

C23_Witness ==
    /\ tgen.status = "done"
    /\ n >= 3
    /\ Len(tmoves) = Pow2(n) - 1

\* ------------------------------------------------------------------ C25, C26, C27: when the log is filled and what it holds

\* C25: the list hanoi_recursive_traced returns, and the list
\* build_trace_events returns, already holds the whole trace when the call
\* returns, before the caller has pulled anything from the generator:
\* 3 * (2^n - 1) events, the first an enter event.
C25_LogCompleteOnReturn ==
    /\ (tgen.status = "live" /\ tmoves = <<>>) =>
           /\ Len(events) = 3 * (Pow2(n) - 1)
           /\ events[1].type = "enter"
    /\ built # <<>> =>
           /\ Len(built[1]) = 3 * (Pow2(n) - 1)
           /\ built[1][1].type = "enter"

\* the log a traced generator leaves once it is pulled to exhaustion
RECURSIVE CompleteLog(_, _, _)
CompleteLog(stack, ev, tt) ==
    LET r == traced_resume(stack, ev, tt)
    IN  IF r.out = <<>> THEN r.events ELSE CompleteLog(r.stack, r.events, r.t)

RECURSIVE RecTrace(_, _, _, _)
RecTrace(k, a, b, c) ==
    LET id  == node_id(Frame(k, a, b, c, "start"))
        sub1 == IF k > 1 THEN RecTrace(k - 1, a, c, b) ELSE <<>>
        sub2 == IF k > 1 THEN RecTrace(k - 1, c, b, a) ELSE <<>>
    IN  <<[type |-> "enter", node_id |-> id, move |-> <<>>]>>
        \o sub1
        \o <<[type |-> "move", node_id |-> id, move |-> <<Move(a, b)>>]>>
        \o sub2
        \o <<[type |-> "exit", node_id |-> id, move |-> <<>>]>>

Untimed(ev) ==
    [j \in 1..Len(ev) |-> [type |-> ev[j].type, node_id |-> ev[j].node_id, move |-> ev[j].move]]

\* C27: in the complete trace the events of every invocation come in the
\* order enter, all events of the first sub-call (n-1, a, c, b) when n > 1,
\* its own move a -> b, all events of the second sub-call (n-1, c, b, a)
\* when n > 1, exit.
C27_InvocationOrder ==
    tgen.status = "done" => Untimed(events) = RecTrace(n, pegs[1], pegs[2], pegs[3])

C27_Witness ==
    /\ tgen.status = "done"
    /\ n >= 3
    /\ Len(events) = 3 * (Pow2(n) - 1)

\* ------------------------------------------------------------------ C28: remove-first against a strict stack

NoDuplicates(l) == \A j, h \in 1..Len(l) : j # h => l[j] # l[h]

\* a strict stack replay: enter pushes, exit pops the top
StrictStep(event, stack) ==
    IF event.type = "enter" THEN Append(stack, event.node_id)
    ELSE IF event.type = "exit" /\ stack # <<>> THEN Front(stack)
    ELSE stack

RECURSIVE StrictScan(_, _, _)
StrictScan(ev, q, stack) ==
    IF ev = <<>> \/ Head(ev).t > q THEN stack
    ELSE LET updated == StrictStep(Head(ev), stack)
         IN  IF Len(updated) >= 0 THEN StrictScan(Tail(ev), q, updated) ELSE updated

StrictNodeAt(ev, q) ==
    LET stack == StrictScan(ev, q, <<>>)
    IN  IF stack = <<>> THEN <<>> ELSE <<Top(stack)>>

\* along the whole log the list active_node_at keeps never holds an id
\* twice, and every exit event removes the element on top
RECURSIVE ExitsRemoveTop(_, _)
ExitsRemoveTop(ev, active_nodes) ==
    IF ev = <<>> THEN TRUE
    ELSE LET e       == Head(ev)
             updated == active_step(e, active_nodes)
         IN  /\ NoDuplicates(updated)
             /\ e.type = "exit" =>
                    /\ active_nodes # <<>>
                    /\ Top(active_nodes) = e.node_id
                    /\ updated = Front(active_nodes)
             /\ ExitsRemoveTop(Tail(ev), updated)

\* C28: on the complete log of the traced solver the list active_node_at
\* keeps never holds a node id twice, so the removal of the first matching
\* id at an exit event removes the top; for every query time active_node_at
\* returns what a strict pop-the-top replay returns.
C28_RemoveFirstIsPop ==
    tgen.status = "done" =>
        /\ ExitsRemoveTop(events, <<>>)
        /\ \A q \in QueryTimes(events) :
               /\ NoDuplicates(active_scan(events, q, <<>>))
               /\ active_node_at(events, q) = StrictNodeAt(events, q)

C28_Witness ==
    /\ tgen.status = "done"
    /\ n >= 3
    /\ \E q \in QueryTimes(events) : Len(active_scan(events, q, <<>>)) = n

\* ------------------------------------------------------------------ C29: node ids and invocation parameters

\* the invocations of one solve in the order they are entered
RECURSIVE RecCalls(_, _, _, _)
RecCalls(k, a, b, c) ==
    <<Frame(k, a, b, c, "start")>>
    \o (IF k > 1 THEN RecCalls(k - 1, a, c, b) \o RecCalls(k - 1, c, b, a) ELSE <<>>)

EnterEvents(ev) ==
    LET IsEnter(e) == e.type = "enter" IN SelectSeq(ev, IsEnter)

MovesAnswered(ev) ==
    \A j \in 1..Len(ev) :
        ev[j].type = "move" => active_node_at(ev, ev[j].t) = <<ev[j].node_id>>

\* on the log the consumed traced generator has filled so far the property
\* holds at every pull
MovesAnsweredOnLog == MovesAnswered(events)

C21_NoShorterSolution ==
    is_solved(heap, state, n) => steps >= Pow2(n) - 1

C21_Witness ==
    /\ n >= 3
    /\ steps = Pow2(n) - 1
    /\ is_solved(heap, state, n)

\* ------------------------------------------------------------------ C24: the scripted driver (SpecRun)

\* list(solve_recursive(...))
RECURSIVE SolveDrain(_)
SolveDrain(g) ==
    LET r == solve_next(g)
    IN  IF r.out = <<>> THEN <<>> ELSE r.out \o SolveDrain(r.gen)

\* C24: for every n >= 1 run(n) raises neither the illegal-move ValueError
\* nor any other error; it passes every move of
\* solve_recursive(n, "A", "B", "C") to move() and returns the dict with
\* C = [n, ..., 1] and A and B empty.
C24_RunSolves ==
    n >= 1 =>
        /\ run.pc # "raised"
        /\ run.pc = "returned" =>
               /\ run.ret = <<[A |-> <<>>, B |-> <<>>, C |-> Countdown(n)]>>
               /\ run.moves_made = Len(SolveDrain(solve_recursive(n, "A", "B", "C")))
               /\ run.moves_made = Pow2(n) - 1

C24_Witness ==
    /\ n >= 3
    /\ run.pc = "returned"
    /\ run.ret # <<>> /\ run.ret[1]["C"] = Countdown(n)

\* ------------------------------------------------------------------ C31: is_solved looks at peg C only (SpecSolve)

\* C31: a state whose n disks stand correctly stacked on peg A or on peg B,
\* such as the end of a replayed solve onto one of them, is reported as not
\* solved.
C31_SolvedOnlyOnPegC ==
    \A p \in {0, 1} :
        Sizes(Deref(heap, state)[p + 1]) = Countdown(n) => ~is_solved(heap, state, n)

\* solve(n, 1, 0, 2) replayed to its end from all disks on peg 1
C31_Witness ==
    /\ n >= 2
    /\ pegs = <<1, 0, 2>>
    /\ gen.status = "done" /\ i = Len(moves) /\ i = Pow2(n) - 1
    /\ Sizes(Deref(heap, state)[1]) = Countdown(n)
    /\ ~is_solved(heap, state, n)

\* ------------------------------------------------------------------ C32: the iterative solver (SpecIter)

\* what the claim says of a generator of solve_iterative(n) with the
\* default pegs: no error, the first item is the initial peg map, the moves
\* yielded so far are the first moves of solve_recursive(n, "A", "B", "C"),
\* and once it is exhausted they are all its 2^n - 1 moves and every disk
\* is on C
IterAsClaimed ==
    LET rec == SolveDrain(solve_recursive(n, "A", "B", "C"))
    IN  /\ iter.status \notin {"NameError", "ValueError"}
        /\ iter.status \in {"running", "done"} =>
               /\ iter.first = <<[A |-> range_down(n), B |-> <<>>, C |-> <<>>]>>
               /\ IsPrefix(iter.moves, rec)
        /\ iter.status = "done" =>
               /\ iter.moves = rec
               /\ Len(iter.moves) = Pow2(n) - 1
               /\ iter.pegs = [A |-> <<>>, B |-> <<>>, C |-> range_down(n)]

IterDefault == iter.args \in {<<>>, <<"A", "B", "C">>}

\* with the three names of hanoi.py bound in the module's namespace the
\* generator behaves as claimed
IterAsClaimedWhenBound ==
    (n >= 1 /\ IterDefault /\ iter.globals = IterNames) => IterAsClaimed

\* C32: for every n >= 1 and the default pegs, solve_iterative(n) of
\* solve_iterative.py as the file is yields the initial peg map and then
\* exactly the 2^n - 1 moves of solve_recursive(n, "A", "B", "C"); no step
\* raises and all disks end on C.
C32_IterativeEqualsRecursive ==
    (n >= 1 /\ IterDefault /\ iter.globals = {}) => IterAsClaimed

\* ------------------------------------------------------------------ C33: the two implementations agree (SpecAgree)

EncMove(m) == <<Letter(m.from_), Letter(m.to)>>

EncState(v) == [A |-> Sizes(v[1]), B |-> Sizes(v[2]), C |-> Sizes(v[3])]

\* C33: under the encoding 0/1/2 <-> A/B/C, solve_recursive(n, src, aux,
\* dst) of hanoi.py and hanoi_recursive(n, a = src, b = dst, c = aux) of
\* the package yield the same moves pull by pull and end together, and on
\* corresponding states can_move / move accept exactly the moves
\* is_legal_move / apply_move accept, with corresponding results.
C33_ImplementationsAgree ==
    LET s == script[1]
    IN  /\ s.moves = [j \in 1..Len(moves) |-> EncMove(moves[j])]
        /\ gen.status = s.gen.status
        /\ s.pegs = EncState(Deref(heap, state))
        /\ s.pkg_raised = s.scr_raised
        /\ \A m \in AllMoves :
               LET r == apply_move(heap, state, m)
                   q == move(s.pegs, Letter(m.from_), Letter(m.to))
               IN  /\ is_legal_move(heap, state, m)
                        <=> can_move(s.pegs, Letter(m.from_), Letter(m.to))
                   /\ r.raised = q.raised
                   /\ ~r.raised => q.pegs = EncState(Deref(r.heap, r.ret[1]))

C33_Witness ==
    /\ n >= 3
    /\ gen.status = "done" /\ Len(moves) = Pow2(n) - 1
    /\ script[1].called /\ script[1].scr_raised
    /\ script[1].pegs["A"] # range_down(n)

\* ------------------------------------------------------------------ C34: the recursion tree layout (SpecTrace)

\* the edge list has one entry per call below the root, and the node dict
\* one entry per distinct node id of the calls
LayoutCounts ==
    layout # <<>> =>
        /\ Len(layout[1].edges) = Pow2(n) - 2
        /\ DOMAIN layout[1].nodes
               = {node_id(f) : f \in Range(RecCalls(n, pegs[1], pegs[2], pegs[3]))}

\* C34: tree_layout returns one node per recursive call of the solver and
\* one edge per parent-child pair of calls: 2^n - 1 entries in the node
\* dict and 2^n - 2 in the edge list.
C34_LayoutCounts ==
    layout # <<>> =>
        /\ Cardinality(DOMAIN layout[1].nodes) = Pow2(n) - 1
        /\ Len(layout[1].edges) = Pow2(n) - 2

\* ------------------------------------------------------------------ C35, C36: the app's session state (SpecApp)

\* C35: after any interleaving of step_game and reset_game,
\* 0 <= i <= len(moves) = 2^n - 1 and the session's state is what applying
\* moves[0..i-1] to initial_state(n) gives; step_game at i = len(moves)
\* changes nothing, and reset_game gives i = 0, t = 0, is_playing false and
\* the initial state.
C35_SessionFollowsMoves ==
    LET ss == session[1]
        r  == reset_game(ss, n)
    IN  /\ 0 <= ss.i /\ ss.i <= Len(ss.moves)
        /\ Len(ss.moves) = Pow2(n) - 1
        /\ Deref(heap, ss.state) = ReplayValue(n, SubSeq(ss.moves, 1, ss.i))
        /\ ss.i = Len(ss.moves) => step_game(heap, ss) = [heap |-> heap, session |-> ss]
        /\ r.session.i = 0 /\ r.session.t = 0 /\ ~r.session.is_playing
        /\ Deref(r.heap, r.session.state) = ReplayValue(n, <<>>)
        /\ r.session.moves = ss.moves

C35_Witness ==
    /\ n > DefaultN
    /\ session[1].i = Len(session[1].moves)
    /\ session[1].is_playing
    /\ is_solved(heap, session[1].state, n)

\* the positions of the move events of a log
MovePositions(ev) == {j \in 1..Len(ev) : ev[j].type = "move"}

\* C36: after the k-th successful step_game since the reset, k >= 1, the
\* events list has a k-th move event and the cursor t is its timestamp plus
\* one; the cursor never exceeds len(events).
C36_CursorAfterKthMove ==
    LET ss == session[1]
    IN  /\ ss.t <= Len(ss.events)
        /\ ss.i >= 1 =>
               \E j \in MovePositions(ss.events) :
                   /\ Cardinality({h \in MovePositions(ss.events) : h <= j}) = ss.i
                   /\ ss.t = ss.events[j].t + 1

====
